---------------------------- MODULE Spec2Model ----------------------------
(***************************************************************************)
(* Model of the bulk-transfer scripts of the repository:                   *)
(*   download-db.py  range-paginated export of three tables to JSON files  *)
(*   load2.py        cursor-paginated drain of the meetings collection     *)
(*   people.py       after-token drain of the contacts collection          *)
(*   upload-db.py    import of the JSON files with foreign-key remapping   *)
(* Every script is single-threaded; `prog` names the script that runs and  *)
(* `pc` its position.  A remote call is two steps: the request is issued   *)
(* (and logged), then the server's answer is handled.                      *)
(***************************************************************************)
EXTENDS Integers, Sequences, FiniteSets, TLC

\* ------------------------------------------------------------------ bounds
\* Largest number of rows of a remote table.
MaxRows == 5
\* Largest number of profiles of an import snapshot.
MaxProfiles == 3
\* Largest page size of the range drain and batch size of the import.
MaxPage == 2
\* Largest number of requests one cursor / after-token drain may issue.
MaxRequests == 4
\* Largest number of notes and of attendees of an import snapshot, and the
\* largest note id in them.
MaxRefs == 2
\* Largest number of rows of the notes and attendees tables in a round trip.
MaxOther == 1
\* Largest number of meetings the notification loop of load2.py is given.
MaxMeetings == 3

VARIABLES
    prog,       \* the script that runs
    pc,         \* its position
    err,        \* the exception that ended the run, "" while there is none
    \* ---- download-db.py
    PAGE_SIZE,  \* download-db.py:15 (drawn in Init: any page size)
    source,     \* the remote tables, table name -> sequence of rows
    tix,        \* main: index into TABLES of the table being exported
    rows,       \* fetch_table: rows
    start,      \* fetch_table: start
    result,     \* value returned by the drain: <<>> none yet, <<v>> returned v
    requests,   \* log of the page requests issued, in order
    responses,  \* log of the answers received, in order
    files,      \* local files, table name -> <<>> (absent) or <<json value>>
    files0,     \* the files as they were when the run started
    written,    \* sequence of the tables whose file this run has written
    \* ---- load2.py, people.py
    cursor,     \* get_all_meetings: cursor / get_contacts_for_owner: after
    all,        \* all_meetings / all_contacts
    meetings,   \* load2.py __main__: meetings
    mix,        \* load2.py __main__: index of m in "for m in meetings"
    events,     \* log of the calls, prints and sleeps of that loop, in order
    \* ---- upload-db.py
    batch_size, \* upload-db.py:86,94 (drawn in Init)
    notes,      \* main: notes
    nix,        \* main: index of the note of the first loop
    old_note_id_to_new, \* main: old_note_id_to_new
    attendees,  \* main: attendees
    profiles,   \* main: profiles
    bix,        \* main: i of the batch loops
    dest,       \* the destination tables, table name -> sequence of rows
    destSeq     \* the destination's identity sequence: the next generated id

dlvars == <<PAGE_SIZE, source, tix, rows, start, files0, written>>
tkvars == <<cursor, all, meetings, mix, events>>
upvars == <<batch_size, notes, nix, old_note_id_to_new, attendees, profiles,
            bix, dest, destSeq>>
vars == <<prog, pc, err, result, requests, responses, files, dlvars, tkvars,
          upvars>>

\* ----------------------------------------------------------------- values
None == <<>>
Some(v) == <<v>>

\* A JSON document: an array of items or some other value (an object).
JList(items) == [isList |-> TRUE, v |-> items]
JObject(o) == [isList |-> FALSE, v |-> o]

Min(a, b) == IF a < b THEN a ELSE b

\* Python's s[lo:hi] on a sequence, 0-based, hi exclusive.
Slice(s, lo, hi) ==
    IF lo >= Min(hi, Len(s)) THEN <<>> ELSE SubSeq(s, lo + 1, Min(hi, Len(s)))

\* ----------------------------------------------------------- download-db.py
TABLES == <<"notes", "attendees", "profiles">>
TableNames == {TABLES[i] : i \in 1..Len(TABLES)}

\* Row i of a remote table; ids ascend with i (the request orders by id).
SourceRow(t, i) ==
    CASE t = "notes" -> [id |-> i, text |-> i]
      [] t = "attendees" -> [id |-> 10 + i, note_id |-> i, name |-> i]
      [] OTHER -> [id |-> [uuid |-> i]]

SourceTable(t, n) == [i \in 1..n |-> SourceRow(t, i)]

\* A snapshot left by an earlier run.
OldFile == Some(JList(<<[id |-> 0]>>))

\* The remote table's answer to "Range: lo-hi" (0-based, inclusive).
Window(t, lo, hi) == Slice(source[t], lo, hi + 1)

\* main: json.dump(rows, f) -- the file holds one JSON array.
JsonDump(rs) == JList(rs)

\* The table main's loop is at.
Table == TABLES[tix]

\* Mutant of RangeEnd: the window's end is one past its last row.
RangeEnd_Exclusive(s) == s + PAGE_SIZE

\* fetch_table: end = start + PAGE_SIZE - 1
RangeEnd(s) == s + PAGE_SIZE - 1

\* Mutant of ShortPage: "<=" for "<", so a full page ends the loop too.
ShortPage_OrFull(chunk) == Len(chunk) <= PAGE_SIZE

\* fetch_table: the loop ends on a page shorter than PAGE_SIZE.
ShortPage(chunk) == Len(chunk) < PAGE_SIZE

\* Mutant of NextStart: the next window starts on the last row of this one.
NextStart_Overlap(end) == end

\* fetch_table: start = end + 1
NextStart(end) == end + 1

\* The values the token drains and the import keep while another script runs.
IdleNotify == meetings = <<>> /\ mix = 0 /\ events = <<>>
IdleToken == cursor = None /\ all = <<>> /\ IdleNotify
IdleUpload ==
    /\ batch_size = 1 /\ notes = <<>> /\ nix = 0
    /\ old_note_id_to_new = <<>> /\ attendees = <<>> /\ profiles = <<>>
    /\ bix = 0 /\ dest = [t \in TableNames |-> <<>>] /\ destSeq = 1
IdleDownload ==
    /\ PAGE_SIZE = 1 /\ source = [t \in TableNames |-> <<>>] /\ tix = 1
    /\ rows = <<>> /\ start = 0 /\ written = <<>>

\* download-db.py is started: any table sizes, any page size, the local files
\* absent or left by an earlier run.
InitDownload ==
    /\ prog = "download" /\ pc = "main" /\ err = ""
    /\ PAGE_SIZE \in 1..MaxPage
    /\ \E n \in [TableNames -> 0..MaxRows] :
          source = [t \in TableNames |-> SourceTable(t, n[t])]
    /\ tix = 1 /\ rows = <<>> /\ start = 0 /\ result = None
    /\ requests = <<>> /\ responses = <<>>
    /\ files0 \in {[t \in TableNames |-> None], [t \in TableNames |-> OldFile]}
    /\ files = files0 /\ written = <<>>
    /\ IdleToken /\ IdleUpload

\* main: for table in TABLES: rows = fetch_table(table, api_key) -- the call.
CallFetchTable ==
    /\ prog = "download" /\ pc = "main"
    /\ rows' = <<>> /\ start' = 0 /\ result' = None
    /\ pc' = "fetch"
    /\ UNCHANGED <<prog, err, requests, responses, files, PAGE_SIZE, source,
                   tix, files0, written, tkvars, upvars>>

\* fetch_table: the GET with the Range header is issued.
RangeRequest ==
    /\ prog = "download" /\ pc = "fetch"
    /\ requests' = Append(requests,
          [method |-> "GET", table |-> Table, start |-> start,
           end |-> RangeEnd(start)])
    /\ pc' = "await"
    /\ UNCHANGED <<prog, err, result, responses, files, dlvars, tkvars, upvars>>

\* fetch_table: the answer is a JSON array, the rows of the requested window.
RangeListResponse ==
    /\ prog = "download" /\ pc = "await"
    /\ LET req == requests[Len(requests)]
           chunk == Window(req.table, req.start, req.end)
       IN /\ responses' = Append(responses,
                [method |-> "GET", table |-> req.table, kind |-> "ok",
                 body |-> JList(chunk)])
          /\ rows' = rows \o chunk
          /\ IF ShortPage(chunk)
                THEN /\ result' = Some(rows') /\ pc' = "write"
                     /\ start' = start
                ELSE /\ start' = NextStart(req.end) /\ pc' = "fetch"
                     /\ result' = result
    /\ UNCHANGED <<prog, err, requests, files, PAGE_SIZE, source, tix, files0,
                   written, tkvars, upvars>>

\* Mutant of RangeNonListResponse: an answer that is no array is an error.
RangeNonListResponse_Raise ==
    /\ prog = "download" /\ pc = "await"
    /\ responses' = Append(responses,
          [method |-> "GET", table |-> Table, kind |-> "ok",
           body |-> JObject("message")])
    /\ err' = "RuntimeError" /\ pc' = "failed"
    /\ UNCHANGED <<prog, result, requests, files, dlvars, tkvars, upvars>>

\* fetch_table: the answer is valid JSON but no array: nothing is added and
\* the loop ends.
RangeNonListResponse ==
    /\ prog = "download" /\ pc = "await"
    /\ responses' = Append(responses,
          [method |-> "GET", table |-> Table, kind |-> "ok",
           body |-> JObject("message")])
    /\ result' = Some(rows) /\ pc' = "write"
    /\ UNCHANGED <<prog, err, requests, files, dlvars, tkvars, upvars>>

\* Mutant of RangeFailed: "except: break" -- the failure ends the loop like a
\* short page and the rows fetched so far are returned.
RangeFailed_Break(kind) ==
    /\ prog = "download" /\ pc = "await"
    /\ responses' = Append(responses,
          [method |-> "GET", table |-> Table, kind |-> kind,
           body |-> JObject("error")])
    /\ result' = Some(rows) /\ pc' = "write"
    /\ UNCHANGED <<prog, err, requests, files, dlvars, tkvars, upvars>>

\* fetch_table: HTTPError or URLError is re-raised as RuntimeError; main does
\* not catch it.
RangeFailed(kind) ==
    /\ prog = "download" /\ pc = "await"
    /\ responses' = Append(responses,
          [method |-> "GET", table |-> Table, kind |-> kind,
           body |-> JObject("error")])
    /\ err' = "RuntimeError" /\ pc' = "failed"
    /\ UNCHANGED <<prog, result, requests, files, dlvars, tkvars, upvars>>

RangeHTTPError == RangeFailed("HTTPError")
RangeURLError == RangeFailed("URLError")

\* Mutant of WriteSnapshot: the output path is that of the first table.
WriteSnapshot_FirstPath ==
    /\ prog = "download" /\ pc = "write"
    /\ files' = [files EXCEPT ![TABLES[1]] = Some(JsonDump(result[1]))]
    /\ written' = Append(written, Table)
    /\ tix' = tix + 1
    /\ pc' = IF tix' > Len(TABLES) THEN "done" ELSE "main"
    /\ UNCHANGED <<prog, err, result, requests, responses, PAGE_SIZE, source,
                   rows, start, files0, tkvars, upvars>>

\* main: the returned rows are dumped to <table>.json; the loop goes on.
WriteSnapshot ==
    /\ prog = "download" /\ pc = "write"
    /\ files' = [files EXCEPT ![Table] = Some(JsonDump(result[1]))]
    /\ written' = Append(written, Table)
    /\ tix' = tix + 1
    /\ pc' = IF tix' > Len(TABLES) THEN "done" ELSE "main"
    /\ UNCHANGED <<prog, err, result, requests, responses, PAGE_SIZE, source,
                   rows, start, files0, tkvars, upvars>>

NextDownload ==
    \/ CallFetchTable
    \/ RangeRequest
    \/ RangeListResponse
    \/ RangeNonListResponse
    \/ RangeHTTPError
    \/ RangeURLError
    \/ WriteSnapshot

SpecDownload == InitDownload /\ [][NextDownload]_vars

\* ------------------------------------------------------- load2.py, people.py
\* Python truthiness of a token that may be missing (None) or empty ("").
Truthy(tok) == tok # None /\ tok[1] # ""

\* What a server may put in a page's token field: nothing, "", a token.
PageTokens == {None, Some(""), Some("t1"), Some("t2")}

\* The k-th answer's record: the server sends each record once.
Meeting(k) == [meeting_id |-> k]
Contact(k) ==
    [id |-> k,
     properties |-> [firstname |-> IF k % 2 = 1 THEN "Ann" ELSE "",
                     lastname |-> ""]]

\* The pages the k-th answer may be: no record or one, and a token field.
MeetingPages(k) ==
    {[recs |-> r, token |-> t] : r \in {<<>>, <<Meeting(k)>>}, t \in PageTokens}
ContactPages(k) ==
    {[recs |-> r, token |-> t] : r \in {<<>>, <<Contact(k)>>}, t \in PageTokens}

InitToken ==
    /\ prog \in {"meetings", "contacts"} /\ pc = "fetch" /\ err = ""
    /\ cursor = None /\ all = <<>> /\ result = None
    /\ requests = <<>> /\ responses = <<>>
    /\ files0 = [t \in TableNames |-> None] /\ files = files0
    /\ IdleNotify /\ IdleDownload /\ IdleUpload

\* Mutant of MeetingsToken: the cursor is never sent.
MeetingsToken_Dropped(c) == None

\* get_all_meetings: params["cursor"] is set only for a truthy cursor.
MeetingsToken(c) == IF Truthy(c) THEN c ELSE None

\* get_all_meetings: if not next_cursor or not meetings: break
MeetingsExhausted(page) == ~Truthy(page.token) \/ page.recs = <<>>

\* get_all_meetings: the GET is issued.
MeetingsRequest ==
    /\ prog = "meetings" /\ pc = "fetch"
    /\ Len(requests) < MaxRequests
    /\ requests' = Append(requests, [token |-> MeetingsToken(cursor)])
    /\ pc' = "await"
    /\ UNCHANGED <<prog, err, result, responses, files, dlvars, tkvars, upvars>>

\* get_all_meetings: a page is received.
MeetingsResponse ==
    /\ prog = "meetings" /\ pc = "await"
    /\ \E page \in MeetingPages(Len(requests)) :
          /\ responses' = Append(responses, [kind |-> "ok", body |-> page])
          /\ all' = all \o page.recs
          /\ IF MeetingsExhausted(page)
                THEN /\ result' = Some(all') /\ pc' = "done"
                     /\ cursor' = cursor
                ELSE /\ cursor' = page.token /\ pc' = "fetch"
                     /\ result' = result
    /\ UNCHANGED <<prog, err, requests, files, dlvars, meetings, mix, events,
                   upvars>>

\* get_all_meetings: HTTPError or URLError is re-raised as RuntimeError.
MeetingsFailed(kind) ==
    /\ prog = "meetings" /\ pc = "await"
    /\ responses' = Append(responses, [kind |-> kind, body |-> "error"])
    /\ err' = "RuntimeError" /\ pc' = "failed"
    /\ UNCHANGED <<prog, result, requests, files, dlvars, tkvars, upvars>>

MeetingsHTTPError == MeetingsFailed("HTTPError")
MeetingsURLError == MeetingsFailed("URLError")

\* get_contacts_for_owner: body["after"] is set whenever after is not None.
ContactsToken(a) == a

\* get_contacts_for_owner: if not next_info or "after" not in next_info: break
ContactsExhausted(page) == page.token = None

\* get_contacts_for_owner: the words of the returned name.
ContactName(c) ==
    LET parts == SelectSeq(<<c.properties.firstname, c.properties.lastname>>,
                           LAMBDA w : w # "")
    IN IF parts = <<>> THEN <<"(no name)">> ELSE parts

\* get_contacts_for_owner: the returned list.
ContactsView(cs) ==
    [i \in 1..Len(cs) |-> [hubspot_id |-> cs[i].id, name |-> ContactName(cs[i])]]

\* get_contacts_for_owner: the POST is issued.
ContactsRequest ==
    /\ prog = "contacts" /\ pc = "fetch"
    /\ Len(requests) < MaxRequests
    /\ requests' = Append(requests, [token |-> ContactsToken(cursor)])
    /\ pc' = "await"
    /\ UNCHANGED <<prog, err, result, responses, files, dlvars, tkvars, upvars>>

\* get_contacts_for_owner: a page is received.
ContactsResponse ==
    /\ prog = "contacts" /\ pc = "await"
    /\ \E page \in ContactPages(Len(requests)) :
          /\ responses' = Append(responses, [kind |-> "ok", body |-> page])
          /\ all' = all \o page.recs
          /\ IF ContactsExhausted(page)
                THEN /\ result' = Some(ContactsView(all')) /\ pc' = "done"
                     /\ cursor' = cursor
                ELSE /\ cursor' = page.token /\ pc' = "fetch"
                     /\ result' = result
    /\ UNCHANGED <<prog, err, requests, files, dlvars, meetings, mix, events,
                   upvars>>

\* get_contacts_for_owner: HTTPError or URLError is re-raised as RuntimeError.
ContactsFailed(kind) ==
    /\ prog = "contacts" /\ pc = "await"
    /\ responses' = Append(responses, [kind |-> kind, body |-> "error"])
    /\ err' = "RuntimeError" /\ pc' = "failed"
    /\ UNCHANGED <<prog, result, requests, files, dlvars, tkvars, upvars>>

ContactsHTTPError == ContactsFailed("HTTPError")
ContactsURLError == ContactsFailed("URLError")

NextToken ==
    \/ MeetingsRequest
    \/ MeetingsResponse
    \/ MeetingsHTTPError
    \/ MeetingsURLError
    \/ ContactsRequest
    \/ ContactsResponse
    \/ ContactsHTTPError
    \/ ContactsURLError

SpecToken == InitToken /\ [][NextToken]_vars

\* ------------------------------------------- load2.py: the notification loop
\* __main__ has fetched (and filtered) the meetings: any number of them.
InitNotify ==
    /\ prog = "notify" /\ pc = "loop" /\ err = ""
    /\ \E n \in 0..MaxMeetings : meetings = [k \in 1..n |-> Meeting(k)]
    /\ mix = 1 /\ events = <<>>
    /\ cursor = None /\ all = <<>> /\ result = None
    /\ requests = <<>> /\ responses = <<>>
    /\ files0 = [t \in TableNames |-> None] /\ files = files0
    /\ IdleDownload /\ IdleUpload

\* __main__: meeting_id = m.get("meeting_id", "")
meeting_id == meetings[mix].meeting_id

\* One entry of the log of the loop.
Event(op) == [op |-> op, id |-> meeting_id]

\* __main__: details = get_meeting(meeting_id) -- the call.
GetMeeting ==
    /\ prog = "notify" /\ pc = "loop" /\ mix <= Len(meetings)
    /\ events' = Append(events, Event("get_meeting"))
    /\ pc' = "await_details"
    /\ UNCHANGED <<prog, err, result, requests, responses, files, dlvars,
                   cursor, all, meetings, mix, upvars>>

\* __main__: the details are received and the line is built.
GetMeetingOk ==
    /\ prog = "notify" /\ pc = "await_details"
    /\ pc' = "webhook"
    /\ UNCHANGED <<prog, err, result, requests, responses, files, dlvars,
                   tkvars, upvars>>

\* __main__: get_meeting raised RuntimeError; "except Exception" prints it
\* and the loop goes on with the next meeting.
GetMeetingFailed ==
    /\ prog = "notify" /\ pc = "await_details"
    /\ events' = Append(events, Event("error"))
    /\ mix' = mix + 1 /\ pc' = "loop"
    /\ UNCHANGED <<prog, err, result, requests, responses, files, dlvars,
                   cursor, all, meetings, upvars>>

\* __main__: urllib.request.urlopen(url) -- the webhook is called.
WebhookCall ==
    /\ prog = "notify" /\ pc = "webhook"
    /\ events' = Append(events, Event("webhook"))
    /\ pc' = "await_webhook"
    /\ UNCHANGED <<prog, err, result, requests, responses, files, dlvars,
                   cursor, all, meetings, mix, upvars>>

\* __main__: the webhook answered 2xx: print, then time.sleep(8).
WebhookOk ==
    /\ prog = "notify" /\ pc = "await_webhook"
    /\ events' = events \o <<Event("webhook ok"), Event("sleep")>>
    /\ mix' = mix + 1 /\ pc' = "loop"
    /\ UNCHANGED <<prog, err, result, requests, responses, files, dlvars,
                   cursor, all, meetings, upvars>>

\* __main__: the webhook answered with an HTTP error, or could not be
\* reached: the inner "except HTTPError" or the outer "except Exception"
\* prints it; neither sleeps.
WebhookFailed(kind) ==
    /\ prog = "notify" /\ pc = "await_webhook"
    /\ events' = Append(events,
          Event(IF kind = "HTTPError" THEN "webhook error" ELSE "error"))
    /\ mix' = mix + 1 /\ pc' = "loop"
    /\ UNCHANGED <<prog, err, result, requests, responses, files, dlvars,
                   cursor, all, meetings, upvars>>

WebhookHTTPError == WebhookFailed("HTTPError")
WebhookURLError == WebhookFailed("URLError")

\* __main__: the loop is over.
NotifyDone ==
    /\ prog = "notify" /\ pc = "loop" /\ mix > Len(meetings)
    /\ pc' = "done"
    /\ UNCHANGED <<prog, err, result, requests, responses, files, dlvars,
                   tkvars, upvars>>

NextNotify ==
    \/ GetMeeting
    \/ GetMeetingOk
    \/ GetMeetingFailed
    \/ WebhookCall
    \/ WebhookOk
    \/ WebhookHTTPError
    \/ WebhookURLError
    \/ NotifyDone

SpecNotify == InitNotify /\ [][NextNotify]_vars

\* The three drains: download-db.py, get_all_meetings, get_contacts_for_owner.
SpecDrains == (InitDownload \/ InitToken) /\ [][NextDownload \/ NextToken]_vars

\* ------------------------------------------------------------ upload-db.py
\* load_json: a file that holds no array is read as a one-element list.
load_json(doc) == IF doc.isList THEN doc.v ELSE <<doc.v>>

\* Mutant of StripId: the row is posted as it is, id included.
StripId_Keep(row) == row

\* main: payload = {k: v for k, v in row.items() if k != "id"}
StripId(row) == [k \in (DOMAIN row) \ {"id"} |-> row[k]]

\* The destination stores a row under the id its identity column generates.
WithId(row, id) == ("id" :> id) @@ row

\* main: old_note_id_to_new[row["id"]] = inserted[0]["id"]
Register(map, old, new) == (old :> new) @@ map

\* Mutant of Rewrite: the id is dropped but note_id is left as it was.
Rewrite_KeepNoteId(map, row) == [k \in (DOMAIN row) \ {"id"} |-> row[k]]

\* main: row["note_id"] = old_note_id_to_new[row["note_id"]]; row.pop("id")
Rewrite(map, row) ==
    [k \in (DOMAIN row) \ {"id"} |->
        IF k = "note_id" THEN map[row.note_id] ELSE row[k]]

\* Mutant of Batch: the slice is one row too long.
Batch_TooLong(list, i) == Slice(list, i, i + batch_size + 1)

\* main: attendees[i : i + batch_size]
Batch(list, i) == Slice(list, i, i + batch_size)

\* Mutant of NextBatch: the step is one too long.
NextBatch_Skip(i) == i + batch_size + 1

\* main: the step of range(0, len(...), batch_size)
NextBatch(i) == i + batch_size

SeqsUpTo(S, n) == UNION {[1..k -> S] : k \in 0..n}

Ascending(ids) == \A i \in 1..(Len(ids) - 1) : ids[i] <= ids[i + 1]

\* Snapshot files the import may find.  A file is an input: the notes come in
\* the export's order (ascending id) but may repeat an id, an attendee may
\* refer to an id no note has.
NoteFiles ==
    {JList([i \in DOMAIN ids |-> [id |-> ids[i], text |-> i]]) :
        ids \in {s \in SeqsUpTo(1..MaxRefs, MaxRefs) : Ascending(s)}}
AttendeeFiles ==
    {JList([i \in DOMAIN refs |-> [id |-> 10 + i, note_id |-> refs[i], name |-> i]]) :
        refs \in SeqsUpTo(1..MaxRefs, MaxRefs)}
ProfileFiles == {JList(SourceTable("profiles", n)) : n \in 0..MaxProfiles}

\* The first id the destination's identity column generates: 1 for a new
\* table, more when rows were inserted and deleted before.
FirstIds == {1, 101}

\* upload-db.py is started against empty destination tables.
InitUpload ==
    /\ prog = "upload" /\ pc = "load_notes" /\ err = ""
    /\ batch_size \in 1..MaxPage
    /\ \E nf \in NoteFiles, af \in AttendeeFiles, pf \in ProfileFiles :
          files0 \in {[t \in TableNames |->
                         IF t \in missing THEN None
                         ELSE CASE t = "notes" -> Some(nf)
                                [] t = "attendees" -> Some(af)
                                [] OTHER -> Some(pf)] :
                      missing \in {{}, {"notes"}, {"attendees"}, {"profiles"}}}
    /\ files = files0
    /\ notes = <<>> /\ nix = 0 /\ old_note_id_to_new = <<>>
    /\ attendees = <<>> /\ profiles = <<>> /\ bix = 0
    /\ dest = [t \in TableNames |-> <<>>] /\ destSeq \in FirstIds
    /\ result = None /\ requests = <<>> /\ responses = <<>>
    /\ IdleDownload /\ IdleToken

\* post_rows: the POST of `list` to `table` is issued.
PostRows(table, list) ==
    requests' = Append(requests,
        [method |-> "POST", table |-> table, rows |-> list])

\* post_rows: HTTPError or URLError is re-raised as RuntimeError; main does
\* not catch it.  The destination has stored nothing.
PostFailed(kind) ==
    /\ prog = "upload" /\ pc \in {"await_note", "await_attendees", "await_profiles"}
    /\ responses' = Append(responses,
          [method |-> "POST", table |-> requests[Len(requests)].table,
           kind |-> kind, body |-> JObject("error")])
    /\ err' = "RuntimeError" /\ pc' = "failed"
    /\ UNCHANGED <<prog, result, requests, files, dlvars, tkvars, upvars>>

PostHTTPError == PostFailed("HTTPError")
PostURLError == PostFailed("URLError")

\* main step 1: notes = load_json("notes.json"); old_note_id_to_new = {}
LoadNotes ==
    /\ prog = "upload" /\ pc = "load_notes"
    /\ files["notes"] # None
    /\ notes' = load_json(files["notes"][1])
    /\ nix' = 1 /\ old_note_id_to_new' = <<>>
    /\ pc' = "notes_loop"
    /\ UNCHANGED <<prog, err, result, requests, responses, files, dlvars,
                   tkvars, batch_size, attendees, profiles, bix, dest, destSeq>>

\* load_json: open() of a file that does not exist raises FileNotFoundError,
\* which nothing catches.
LoadMissing ==
    /\ prog = "upload"
    /\ \/ pc = "load_notes" /\ files["notes"] = None
       \/ pc = "notes_loop" /\ nix > Len(notes) /\ files["attendees"] = None
       \/ pc = "attendees_loop" /\ bix >= Len(attendees)
            /\ files["profiles"] = None
    /\ err' = "FileNotFoundError" /\ pc' = "failed"
    /\ UNCHANGED <<prog, result, requests, responses, files, dlvars, tkvars,
                   upvars>>

\* main step 1: post_rows("notes", [payload], api_key) for the next note.
PostNote ==
    /\ prog = "upload" /\ pc = "notes_loop" /\ nix <= Len(notes)
    /\ PostRows("notes", <<StripId(notes[nix])>>)
    /\ pc' = "await_note"
    /\ UNCHANGED <<prog, err, result, responses, files, dlvars, tkvars, upvars>>

\* main step 1: the destination stored the note and returned it with its new
\* id: inserted is not empty and the id is registered.
NoteInserted ==
    /\ prog = "upload" /\ pc = "await_note"
    /\ LET stored == WithId(requests[Len(requests)].rows[1], destSeq)
       IN /\ dest' = [dest EXCEPT !["notes"] = Append(@, stored)]
          /\ responses' = Append(responses,
                [method |-> "POST", table |-> "notes", kind |-> "ok",
                 body |-> JList(<<stored>>)])
          /\ old_note_id_to_new' =
                Register(old_note_id_to_new, notes[nix].id, stored.id)
    /\ destSeq' = destSeq + 1
    /\ nix' = nix + 1 /\ pc' = "notes_loop"
    /\ UNCHANGED <<prog, err, result, requests, files, dlvars, tkvars,
                   batch_size, notes, attendees, profiles, bix>>

\* main step 1: the destination stored the note and answered with an empty
\* body or an empty array: inserted is empty and nothing is registered.
NoteInsertedNoBody ==
    /\ prog = "upload" /\ pc = "await_note"
    /\ LET stored == WithId(requests[Len(requests)].rows[1], destSeq)
       IN /\ dest' = [dest EXCEPT !["notes"] = Append(@, stored)]
          /\ responses' = Append(responses,
                [method |-> "POST", table |-> "notes", kind |-> "ok",
                 body |-> JList(<<>>)])
    /\ destSeq' = destSeq + 1
    /\ nix' = nix + 1 /\ pc' = "notes_loop"
    /\ UNCHANGED <<prog, err, result, requests, files, dlvars, tkvars,
                   batch_size, notes, old_note_id_to_new, attendees, profiles,
                   bix>>

\* Mutant of LoadAttendees: the notes loop is left one note early.
LoadAttendees_Early ==
    /\ prog = "upload" /\ pc = "notes_loop" /\ nix >= Len(notes)
    /\ files["attendees"] # None
    /\ attendees' = load_json(files["attendees"][1])
    /\ pc' = "rewrite"
    /\ UNCHANGED <<prog, err, result, requests, responses, files, dlvars,
                   tkvars, batch_size, notes, nix, old_note_id_to_new,
                   profiles, bix, dest, destSeq>>

\* main step 2: attendees = load_json("attendees.json")
LoadAttendees ==
    /\ prog = "upload" /\ pc = "notes_loop" /\ nix > Len(notes)
    /\ files["attendees"] # None
    /\ attendees' = load_json(files["attendees"][1])
    /\ pc' = "rewrite"
    /\ UNCHANGED <<prog, err, result, requests, responses, files, dlvars,
                   tkvars, batch_size, notes, nix, old_note_id_to_new,
                   profiles, bix, dest, destSeq>>

\* main step 2: every attendee's note_id is in the dict: all rows are
\* rewritten, then the batch loop starts.
RewriteAttendees ==
    /\ prog = "upload" /\ pc = "rewrite"
    /\ \A i \in 1..Len(attendees) :
          attendees[i].note_id \in DOMAIN old_note_id_to_new
    /\ attendees' = [i \in 1..Len(attendees) |->
                        Rewrite(old_note_id_to_new, attendees[i])]
    /\ bix' = 0 /\ pc' = "attendees_loop"
    /\ UNCHANGED <<prog, err, result, requests, responses, files, dlvars,
                   tkvars, batch_size, notes, nix, old_note_id_to_new,
                   profiles, dest, destSeq>>

\* main step 2: some attendee's note_id is not in the dict: the lookup raises
\* KeyError, which nothing catches.
RewriteKeyError ==
    /\ prog = "upload" /\ pc = "rewrite"
    /\ \E i \in 1..Len(attendees) :
          attendees[i].note_id \notin DOMAIN old_note_id_to_new
    /\ err' = "KeyError" /\ pc' = "failed"
    /\ UNCHANGED <<prog, result, requests, responses, files, dlvars, tkvars,
                   upvars>>

\* main step 2: post_rows("attendees", attendees[i : i + batch_size], api_key)
PostAttendees ==
    /\ prog = "upload" /\ pc = "attendees_loop" /\ bix < Len(attendees)
    /\ PostRows("attendees", Batch(attendees, bix))
    /\ pc' = "await_attendees"
    /\ UNCHANGED <<prog, err, result, responses, files, dlvars, tkvars, upvars>>

\* The destination stored the rows of the batch; main ignores the answer.
BatchInserted(table, awaitPc, loopPc) ==
    /\ prog = "upload" /\ pc = awaitPc
    /\ LET sent == requests[Len(requests)].rows
       IN /\ dest' = [dest EXCEPT ![table] = @ \o sent]
          /\ responses' = Append(responses,
                [method |-> "POST", table |-> table, kind |-> "ok",
                 body |-> JList(sent)])
    /\ bix' = NextBatch(bix) /\ pc' = loopPc
    /\ UNCHANGED <<prog, err, result, requests, files, dlvars, tkvars,
                   batch_size, notes, nix, old_note_id_to_new, attendees,
                   profiles, destSeq>>

AttendeesInserted ==
    BatchInserted("attendees", "await_attendees", "attendees_loop")

\* main step 3: profiles = load_json("profiles.json")
LoadProfiles ==
    /\ prog = "upload" /\ pc = "attendees_loop" /\ bix >= Len(attendees)
    /\ files["profiles"] # None
    /\ profiles' = load_json(files["profiles"][1])
    /\ bix' = 0 /\ pc' = "profiles_loop"
    /\ UNCHANGED <<prog, err, result, requests, responses, files, dlvars,
                   tkvars, batch_size, notes, nix, old_note_id_to_new,
                   attendees, dest, destSeq>>

\* main step 3: post_rows("profiles", profiles[i : i + batch_size], api_key)
PostProfiles ==
    /\ prog = "upload" /\ pc = "profiles_loop" /\ bix < Len(profiles)
    /\ PostRows("profiles", Batch(profiles, bix))
    /\ pc' = "await_profiles"
    /\ UNCHANGED <<prog, err, result, responses, files, dlvars, tkvars, upvars>>

ProfilesInserted ==
    BatchInserted("profiles", "await_profiles", "profiles_loop")

\* main: the last loop is over and main returns.
UploadDone ==
    /\ prog = "upload" /\ pc = "profiles_loop" /\ bix >= Len(profiles)
    /\ pc' = "done"
    /\ UNCHANGED <<prog, err, result, requests, responses, files, dlvars,
                   tkvars, upvars>>

\* The steps of the import when every file it opens exists.
NextImport ==
    \/ LoadNotes
    \/ PostNote
    \/ NoteInserted
    \/ NoteInsertedNoBody
    \/ LoadAttendees
    \/ RewriteAttendees
    \/ RewriteKeyError
    \/ PostAttendees
    \/ AttendeesInserted
    \/ LoadProfiles
    \/ PostProfiles
    \/ ProfilesInserted
    \/ PostHTTPError
    \/ PostURLError
    \/ UploadDone

NextUpload == NextImport \/ LoadMissing

SpecUpload == InitUpload /\ [][NextUpload]_vars

\* ------------------------------------------------- export, then import
\* The export whose snapshot of profiles is imported again: the other two
\* tables hold at most MaxOther rows, no file exists before the run.
InitRoundTrip ==
    /\ InitDownload
    /\ Len(source["notes"]) <= MaxOther /\ Len(source["attendees"]) <= MaxOther
    /\ files0 = [t \in TableNames |-> None]

\* upload-db.py is started after download-db.py has finished, on the three
\* files it wrote, against empty destination tables.
StartUpload ==
    /\ prog = "download" /\ pc = "done"
    /\ prog' = "upload" /\ pc' = "load_notes"
    /\ batch_size' \in 1..MaxPage /\ destSeq' \in FirstIds
    /\ UNCHANGED <<err, result, requests, responses, files, dlvars, tkvars,
                   notes, nix, old_note_id_to_new, attendees, profiles, bix,
                   dest>>

SpecRoundTrip ==
    InitRoundTrip /\ [][NextDownload \/ StartUpload \/ NextImport]_vars

\* ------------------------------------------------------------ all scripts
Init == InitDownload \/ InitToken \/ InitNotify \/ InitUpload
Next == NextDownload \/ NextToken \/ NextNotify \/ NextUpload \/ StartUpload
Spec == Init /\ [][Next]_vars

\* ================================================================== claims
RangeOf(f) == {f[i] : i \in DOMAIN f}

\* The requests of the drain of table t.
ReqsOf(t) == SelectSeq(requests, LAMBDA r : r.method = "GET" /\ r.table = t)

\* Every answer the drain of table t got was a JSON array.
HonestDrain(t) ==
    \A i \in 1..Len(responses) :
        (responses[i].method = "GET" /\ responses[i].table = t) =>
            responses[i].kind = "ok" /\ responses[i].body.isList

IsError(r) == r.kind \in {"HTTPError", "URLError"}

\* The rows of the arrays the drain of table t received, in order.
RECURSIVE DrainedRows(_, _)
DrainedRows(rs, t) ==
    IF rs = <<>> THEN <<>>
    ELSE (IF /\ Head(rs).method = "GET" /\ Head(rs).table = t
             /\ Head(rs).kind = "ok" /\ Head(rs).body.isList
             THEN Head(rs).body.v ELSE <<>>) \o DrainedRows(Tail(rs), t)

CeilDiv(n, p) == (n + p - 1) \div p

\* C1: a range drain that was answered with the rows of each requested
\* window returns exactly the rows of the remote table, each once, in order.
C1_RangeDrainComplete ==
    (prog = "download" /\ pc = "write" /\ HonestDrain(Table))
        => result = Some(source[Table])

\* C1's case: five rows drained with page size 2, in pages of 2, 2 and 1.
C1_Witness ==
    /\ prog = "download" /\ pc = "write" /\ HonestDrain(Table)
    /\ Len(source[Table]) = 5 /\ PAGE_SIZE = 2
    /\ Len(ReqsOf(Table)) = 3
    /\ Len(responses[Len(responses)].body.v) = 1
    /\ result = Some(source[Table])

\* C2 as stated: a range drain of N rows with page size P issues exactly
\* ceil(N/P) requests.
C2_CeilRequests ==
    (prog = "download" /\ pc = "write" /\ HonestDrain(Table))
        => Len(ReqsOf(Table)) = CeilDiv(Len(source[Table]), PAGE_SIZE)

\* C2 amended: a range drain of N rows with page size P issues exactly
\* floor(N/P) + 1 requests (one more than ceil(N/P) when P divides N, N = 0
\* included: the last page must be seen to be short).
C2_FloorPlusOneRequests ==
    (prog = "download" /\ pc = "write" /\ HonestDrain(Table))
        => Len(ReqsOf(Table)) = (Len(source[Table]) \div PAGE_SIZE) + 1

\* C2's case: the drain of a non-empty table of a whole number of pages.
C2_Witness ==
    /\ prog = "download" /\ pc = "write" /\ HonestDrain(Table)
    /\ Len(source[Table]) > 0 /\ Len(source[Table]) % PAGE_SIZE = 0
    /\ Len(ReqsOf(Table)) = CeilDiv(Len(source[Table]), PAGE_SIZE) + 1

\* The index of the last answer that carried records, 0 when there is none.
LastNonEmpty ==
    LET S == {i \in 1..Len(responses) :
                responses[i].kind = "ok" /\ responses[i].body.recs # <<>>}
    IN IF S = {} THEN 0 ELSE CHOOSE i \in S : \A j \in S : j <= i

\* C3 as stated: a cursor or after-token drain issues no request after it
\* received an empty page, and at most one request after the last page that
\* carried records.
C3_StopsAfterEmptyPage ==
    prog \in {"meetings", "contacts"} =>
        /\ \A i \in 1..Len(responses) :
              (responses[i].kind = "ok" /\ responses[i].body.recs = <<>>)
                  => Len(requests) <= i
        /\ Len(requests) <= LastNonEmpty + 1

\* C4 as stated: the tokens carried by the requests of one cursor or
\* after-token drain are pairwise distinct.
C4_TokensDistinct ==
    prog \in {"meetings", "contacts"} =>
        \A i, j \in 1..Len(requests) :
            (i < j /\ requests[i].token # None) =>
                requests[i].token # requests[j].token

\* The answers to the note POSTs, in order: the i-th is that of notes[i].
NoteResponses ==
    SelectSeq(responses, LAMBDA r : r.method = "POST" /\ r.table = "notes")

\* The destination returned the i-th note with its generated id.
Returned(i) ==
    /\ i <= Len(NoteResponses)
    /\ NoteResponses[i].kind = "ok" /\ NoteResponses[i].body.v # <<>>

\* The id the destination returned for the i-th note.
NewId(i) == NoteResponses[i].body.v[1].id

\* The rows of the POSTs to table t, in request order.
RECURSIVE SentTo(_, _)
SentTo(rs, t) ==
    IF rs = <<>> THEN <<>>
    ELSE (IF Head(rs).method = "POST" /\ Head(rs).table = t
             THEN Head(rs).rows ELSE <<>>) \o SentTo(Tail(rs), t)

\* The attendees as the snapshot file holds them.
SnapshotAttendees == load_json(files0["attendees"][1])

\* C5: the k-th attendee row sent to the destination carries as note_id the
\* id the destination returned for a note whose snapshot id is the note_id of
\* the k-th attendee of the snapshot.
C5_ForeignKeyRewritten ==
    prog = "upload" =>
        LET sent == SentTo(requests, "attendees")
        IN \A k \in 1..Len(sent) :
              \E i \in 1..Len(notes) :
                  /\ notes[i].id = SnapshotAttendees[k].note_id
                  /\ Returned(i) /\ sent[k].note_id = NewId(i)

\* C5's case: an attendee referring to the second of two notes has been sent
\* with a note_id that is not the one of the snapshot.
C5_Witness ==
    /\ prog = "upload" /\ Len(notes) > 1
    /\ LET sent == SentTo(requests, "attendees")
       IN /\ sent # <<>>
          /\ SnapshotAttendees[1].note_id = notes[2].id
          /\ notes[1].id # notes[2].id
          /\ sent[1].note_id = NewId(2)
          /\ sent[1].note_id # SnapshotAttendees[1].note_id

\* The snapshot attendees whose note_id is in the KeyMap, rewritten.
RECURSIVE Resolvable(_)
Resolvable(as) ==
    IF as = <<>> THEN <<>>
    ELSE (IF Head(as).note_id \in DOMAIN old_note_id_to_new
             THEN <<Rewrite(old_note_id_to_new, Head(as))>> ELSE <<>>)
         \o Resolvable(Tail(as))

\* C6 as stated: an attendee whose note_id is not in the KeyMap does not end
\* the run; a finished run has inserted every attendee whose note_id resolves
\* and every profile.
C6_UnresolvedSkipped ==
    prog = "upload" =>
        /\ err # "KeyError"
        /\ pc = "done" =>
              /\ dest["attendees"] = Resolvable(SnapshotAttendees)
              /\ dest["profiles"] = profiles

\* The first note with the id of notes[j] for which an id was returned.
FirstReturned(j) ==
    CHOOSE i \in 1..j :
        /\ notes[i].id = notes[j].id /\ Returned(i)
        /\ \A h \in 1..(i - 1) : ~(notes[h].id = notes[j].id /\ Returned(h))

\* C7 as stated: the KeyMap keeps for an old id the first new id registered
\* for it, and a later registration of another new id for that old id ends
\* in a duplicate-key error.
C7_DuplicateKeyRejected ==
    prog = "upload" =>
        \A j \in 1..Len(NoteResponses) :
            Returned(j) =>
                /\ old_note_id_to_new[notes[j].id] = NewId(FirstReturned(j))
                /\ NewId(j) # NewId(FirstReturned(j))
                      => err = "DuplicateKeyError"

\* C8: when the export of profiles was answered honestly and the import that
\* follows it has finished, the destination's profiles are the rows of the
\* remote table, ids included, each once.
C8_RoundTrip ==
    (prog = "upload" /\ pc = "done" /\ HonestDrain("profiles")) =>
        /\ RangeOf(dest["profiles"]) = RangeOf(source["profiles"])
        /\ Len(dest["profiles"]) = Len(source["profiles"])

\* C8's case: a round trip of more profiles than one page and one batch hold.
C8_Witness ==
    /\ prog = "upload" /\ pc = "done" /\ HonestDrain("profiles")
    /\ Len(source["profiles"]) > PAGE_SIZE
    /\ Len(source["profiles"]) > batch_size
    /\ PAGE_SIZE > 1 /\ batch_size > 1
    /\ RangeOf(dest["profiles"]) = RangeOf(source["profiles"])

\* C9: a failed page fetch ends the drain: the run is in its failed state
\* with a RuntimeError, the drain has returned nothing, and the failed
\* request is the last request issued and the last answer handled.
C9_FailedFetchFailsDrain ==
    \A i \in 1..Len(responses) :
        IsError(responses[i]) =>
            /\ pc = "failed" /\ err = "RuntimeError"
            /\ result = None
            /\ Len(requests) = i /\ Len(responses) = i

\* C9's case: a fetch failed after earlier pages had brought records.
C9_Witness ==
    /\ pc = "failed" /\ IsError(responses[Len(responses)])
    /\ Len(responses) > 1
    /\ (rows # <<>> \/ all # <<>>)

\* The drain of table t has returned: it got answers, none a failure, the
\* last one no array or a page shorter than PAGE_SIZE.
DrainReturned(t) ==
    LET mine == SelectSeq(responses, LAMBDA r : r.method = "GET" /\ r.table = t)
        last == mine[Len(mine)]
    IN /\ mine # <<>>
       /\ \A i \in 1..Len(mine) : ~IsError(mine[i])
       /\ (~last.body.isList \/ Len(last.body.v) < PAGE_SIZE)

\* C10: the files the export has written are those of a prefix of TABLES;
\* each was written after its drain returned and holds all the rows that
\* drain received; every other file is as it was before the run, the file of
\* a table whose drain failed included.
C10_ExportAtomicity ==
    prog = "download" =>
        /\ Len(written) <= Len(TABLES)
        /\ written = SubSeq(TABLES, 1, Len(written))
        /\ \A t \in TableNames :
              IF t \in RangeOf(written)
                THEN /\ DrainReturned(t)
                     /\ files[t] = Some(JList(DrainedRows(responses, t)))
                ELSE files[t] = files0[t]
        /\ pc = "failed" => Table \notin RangeOf(written)

\* C10's case: a drain failed after an earlier table's file was written over
\* the file of an earlier run.
C10_Witness ==
    /\ prog = "download" /\ pc = "failed" /\ written # <<>>
    /\ files0[Table] # None /\ files[Table] = files0[Table]
    /\ files[written[1]] # files0[written[1]]
    /\ rows # <<>>

\* The POSTs to table t, in request order.
PostsTo(t) == SelectSeq(requests, LAMBDA r : r.method = "POST" /\ r.table = t)

\* The notes loop is over: main has gone on to the attendees.
NotesPhaseOver ==
    pc \in {"rewrite", "attendees_loop", "await_attendees", "profiles_loop",
            "await_profiles", "done"}

\* C11 as stated: a failed insertion of one note does not end the run: the
\* notes after it are still sent and main goes on to attendees and profiles.
C11_NoteFailureContinues ==
    prog = "upload" =>
        \A i \in 1..Len(responses) :
            (responses[i].method = "POST" /\ responses[i].table = "notes"
                /\ IsError(responses[i]))
            => /\ pc # "failed" /\ err = ""
               /\ NotesPhaseOver => Len(PostsTo("notes")) = Len(notes)

\* The place of a table in the import's order.
Rank(t) == CHOOSE i \in 1..Len(TABLES) : TABLES[i] = t

\* C12: the POSTs go out in the order notes, attendees, profiles, one at a
\* time; when a POST to attendees is issued every note of the snapshot has
\* been posted and answered, and when a POST to profiles is issued every
\* attendee has been posted and answered.
C12_ImportOrder ==
    prog = "upload" =>
        /\ Len(responses) \in {Len(requests) - 1, Len(requests)}
        /\ \A i, j \in 1..Len(requests) :
              i < j => Rank(requests[i].table) <= Rank(requests[j].table)
        /\ \A j \in 1..Len(requests) :
              /\ \A i \in 1..(j - 1) : responses[i].kind = "ok"
              /\ requests[j].table = "attendees"
                    => Len(PostsTo("notes")) = Len(notes)
              /\ requests[j].table = "profiles"
                    => /\ Len(PostsTo("notes")) = Len(notes)
                       /\ SentTo(requests, "attendees") = attendees

\* C12's case: notes, attendees and profiles have all been posted.
C12_Witness ==
    /\ prog = "upload" /\ pc = "done"
    /\ Len(PostsTo("notes")) > 1
    /\ PostsTo("attendees") # <<>> /\ PostsTo("profiles") # <<>>

\* The profiles as the snapshot file holds them.
SnapshotProfiles == load_json(files0["profiles"][1])

\* The KeyMap is never changed while the profiles are imported.
KeyMapKeptByProfiles ==
    [][(pc \in {"profiles_loop", "await_profiles"})
          => UNCHANGED old_note_id_to_new]_vars

\* What holds of the POSTs to profiles in every state.
ProfileBatches ==
    prog = "upload" =>
        LET posts == PostsTo("profiles")
            sent == SentTo(requests, "profiles")
        IN /\ \A i \in 1..Len(posts) :
                 Len(posts[i].rows) >= 1 /\ Len(posts[i].rows) <= batch_size
           /\ posts # <<>> =>
                 /\ Len(sent) <= Len(SnapshotProfiles)
                 /\ sent = SubSeq(SnapshotProfiles, 1, Len(sent))
           /\ pc = "done" =>
                 /\ Len(posts) = CeilDiv(Len(SnapshotProfiles), batch_size)
                 /\ sent = SnapshotProfiles

\* C17: the import of N profiles issues ceil(N / batch_size) POSTs, none for
\* N = 0, each of 1 to batch_size rows; their rows in request order are the
\* snapshot's rows, ids included; the KeyMap is not changed meanwhile.
C17_PassThroughBatching == []ProfileBatches /\ KeyMapKeptByProfiles

\* C17's case: a snapshot that needs a full batch and a short one.
C17_Witness ==
    /\ prog = "upload" /\ pc = "done" /\ batch_size > 1
    /\ Len(SnapshotProfiles) > batch_size
    /\ Len(SnapshotProfiles) % batch_size # 0
    /\ Len(PostsTo("profiles")) = CeilDiv(Len(SnapshotProfiles), batch_size)

\* C18: the i-th POST to notes carries one row, notes[i] of the snapshot
\* without its id; a POST is issued only when every earlier one has been
\* answered; once the notes loop is over there is one POST per note.
C18_OneInsertPerNote ==
    prog = "upload" =>
        LET posts == PostsTo("notes")
        IN /\ Len(posts) <= Len(notes)
           /\ \A i \in 1..Len(posts) :
                 /\ posts[i].rows = <<StripId(notes[i])>>
                 /\ "id" \notin DOMAIN posts[i].rows[1]
                 /\ notes[i] = load_json(files0["notes"][1])[i]
           /\ Len(NoteResponses) \in {Len(posts) - 1, Len(posts)}
           /\ pc = "notes_loop" => Len(NoteResponses) = Len(posts)
           /\ NotesPhaseOver => Len(posts) = Len(notes)

\* C18's case: two notes have been posted and the loop is over.
C18_Witness ==
    /\ prog = "upload" /\ NotesPhaseOver
    /\ Len(PostsTo("notes")) > 1

\* C19 as stated: once the notes loop is over the KeyMap has an entry for
\* every note of the snapshot, whatever the body of the answers was, and the
\* KeyMap does not change afterwards.
C19_KeyMapComplete ==
    (prog = "upload" /\ NotesPhaseOver) =>
        \A i \in 1..Len(notes) : notes[i].id \in DOMAIN old_note_id_to_new

\* The answers the drain of table t got, in order.
RespsOf(t) == SelectSeq(responses, LAMBDA r : r.method = "GET" /\ r.table = t)

\* main's loop is at table t.
AtTable(t) == tix <= Len(TABLES) /\ Table = t

\* fetch_table(t) has returned: its rows are being written or are written.
FetchReturned(t) ==
    (AtTable(t) /\ pc = "write") \/ t \in RangeOf(written)

\* C13: the k-th request of a drain, counted from 0, asks for the window from
\* k * PAGE_SIZE to k * PAGE_SIZE + PAGE_SIZE - 1; an array shorter than
\* PAGE_SIZE, the empty one included, is the last page of its drain, and an
\* array of PAGE_SIZE rows is followed by another request.
C13_RangeBookkeeping ==
    prog = "download" =>
        \A t \in TableNames :
            LET R == ReqsOf(t)
                S == RespsOf(t)
            IN /\ \A k \in 1..Len(R) :
                     /\ R[k].start = (k - 1) * PAGE_SIZE
                     /\ R[k].end = (k - 1) * PAGE_SIZE + PAGE_SIZE - 1
               /\ \A i \in 1..Len(S) :
                     (S[i].kind = "ok" /\ S[i].body.isList) =>
                         IF Len(S[i].body.v) < PAGE_SIZE
                            THEN Len(R) = i /\ FetchReturned(t)
                            ELSE /\ Len(S[i].body.v) = PAGE_SIZE
                                 /\ ~FetchReturned(t) \/ Len(R) > i
                                 /\ Len(R) > i
                                       \/ (AtTable(t) /\ pc = "fetch"
                                              /\ start = i * PAGE_SIZE)

\* C13's case: a drain of two full pages and a short one has returned.
C13_Witness ==
    /\ prog = "download" /\ pc = "write" /\ PAGE_SIZE > 1
    /\ Len(ReqsOf(Table)) = 3
    /\ HonestDrain(Table)
    /\ Len(RespsOf(Table)[3].body.v) \in 1..(PAGE_SIZE - 1)

\* C16: an answer that is valid JSON but no array ends its drain without an
\* error: no row is added, no further request for that table is issued, and
\* fetch_table returns the rows of the earlier pages.
C16_NonListEndsDrain ==
    prog = "download" =>
        \A t \in TableNames :
            LET R == ReqsOf(t)
                S == RespsOf(t)
            IN \A i \in 1..Len(S) :
                  (S[i].kind = "ok" /\ ~S[i].body.isList) =>
                      /\ Len(R) = i /\ Len(S) = i
                      /\ FetchReturned(t)
                      /\ AtTable(t) =>
                            /\ pc = "write" /\ err = ""
                            /\ rows = DrainedRows(SubSeq(S, 1, i - 1), t)
                            /\ result = Some(rows)

\* C16's case: a full page, then an answer that is no array.
C16_Witness ==
    /\ prog = "download" /\ pc = "write"
    /\ Len(RespsOf(Table)) = 2
    /\ ~RespsOf(Table)[2].body.isList /\ RespsOf(Table)[2].kind = "ok"
    /\ Len(rows) = PAGE_SIZE /\ result = Some(rows)

\* C14 as stated: the after-token drain ends at the first page that is empty
\* or whose after token is absent or the empty string; no request follows it.
C14_AfterDrainStops ==
    prog = "contacts" =>
        \A i \in 1..Len(responses) :
            (/\ responses[i].kind = "ok"
             /\ \/ ~Truthy(responses[i].body.token)
                \/ responses[i].body.recs = <<>>)
            => Len(requests) = i /\ pc = "done"

\* The records of the pages received, in page order.
RECURSIVE PageRecs(_)
PageRecs(rs) ==
    IF rs = <<>> THEN <<>>
    ELSE (IF Head(rs).kind = "ok" THEN Head(rs).body.recs ELSE <<>>)
            \o PageRecs(Tail(rs))

\* C15: get_all_meetings sends its first request without a cursor and every
\* later one with the next_cursor of the answer before it; it goes on while
\* the pages carry records and a next_cursor, and returns the records of all
\* the pages it received, the first empty or cursorless one included.
C15_CursorDrainResult ==
    prog = "meetings" =>
        /\ requests # <<>> => requests[1].token = None
        /\ \A i \in 2..Len(requests) :
              /\ responses[i - 1].kind = "ok"
              /\ responses[i - 1].body.recs # <<>>
              /\ responses[i - 1].body.token \notin {None, Some("")}
              /\ requests[i].token = responses[i - 1].body.token
        /\ pc = "done" =>
              LET last == responses[Len(responses)]
              IN /\ Len(responses) = Len(requests)
                 /\ last.kind = "ok"
                 /\ last.body.recs = <<>>
                       \/ last.body.token \in {None, Some("")}
                 /\ result = Some(PageRecs(responses))

\* C15's case: two pages with records and a cursor, then a last page.
C15_Witness ==
    /\ prog = "meetings" /\ pc = "done"
    /\ Len(requests) = 3 /\ requests[3].token \notin {None, Some("")}
    /\ Len(result[1]) >= 2

\* The positions of the webhook calls in the log of the loop.
WebhookCalls == {i \in 1..Len(events) : events[i].op = "webhook"}

\* The ids of the meetings get_meeting was called for, in call order.
Attempted ==
    LET calls == SelectSeq(events, LAMBDA e : e.op = "get_meeting")
    IN [i \in 1..Len(calls) |-> calls[i].id]

\* C20 as stated: between two webhook calls of one run the delay step occurs,
\* whether the earlier call succeeded or returned an HTTP error; no failure
\* stops the loop; every meeting is attempted once, in fetched order.
C20_WebhookRateLimit ==
    prog = "notify" =>
        /\ \A i, j \in WebhookCalls :
              i < j => \E k \in (i + 1)..(j - 1) : events[k].op = "sleep"
        /\ pc # "failed" /\ err = ""
        /\ Len(Attempted) <= Len(meetings)
        /\ \A i \in 1..Len(Attempted) : Attempted[i] = meetings[i].meeting_id
        /\ pc = "done" => Len(Attempted) = Len(meetings)

====
